---- MODULE Spec2Model ----
(***************************************************************************)
(* SynBioAutomation.py: one process invocation per command line.  The     *)
(* state that survives between invocations is the pickle files of the     *)
(* working directory (the Calibration Store), the session directories     *)
(* with their images, the user's crontab and the level of GPIO pin 12.    *)
(* An invocation is a sequence of steps, one per statement that touches   *)
(* that state or the camera, so that an exception can leave it anywhere.  *)
(***************************************************************************)
EXTENDS Integers, Sequences, FiniteSets, TLC

(* ------------------------------ bounds --------------------------------- *)

\* first wall-clock second of the model and the number of seconds after it
ClockStart == 59
MaxTicks == 2
\* entries the crontab may hold before TimeCourse is no longer started
MaxCron == 2

MaxClock == ClockStart + MaxTicks

\* session names given to Initialize, interval arguments given to TimeCourse
Names == {"A", "B"}
Intervals == {"5"}

\* the processes; SeqProcs are those of the run-to-completion specification
Procs == {1, 2}
SeqProcs == {1}

\* the argument vectors tried (sys.argv without the script name)
Argvs ==
    {<<>>, <<"End">>, <<"Bogus">>, <<"Bogus", "A">>, <<"End", "A", "B">>}
      \cup {<<"Initialize", n>> : n \in Names}
      \cup {<<"TimeCourse", i>> : i \in Intervals}

\* gains the sensor can report; 1 is the value the polls wait for
Gains == {1, 2}
\* white-balance gains (in tenths) the sensor's automatic mode can settle on
AwbAuto == {<<12, 18>>}

(* --------------------------- program values ---------------------------- *)

NoStamp == <<0, 0, 0>>
NoName == [kind |-> "none", stamp |-> NoStamp]

\* the six pickle files of the working directory
Keys == {"path", "iso", "shutter_speed", "awb_gain", "analog_gain", "digital_gain"}

\* 'Initial.png' and '<time.strftime("%Y_%m_%d_%H%M%S")>.png'
\* the format keeps date and hour, minute and second of the local time
InitialPng == [kind |-> "Initial", stamp |-> NoStamp]
Strftime(t) == <<t \div 3600, (t \div 60) % 60, t % 60>>
StampPng(t) == [kind |-> "stamp", stamp |-> Strftime(t)]

\* time.strftime('%M'): the minute of the hour of wall-clock second t
MinuteOf(t) == (t \div 60) % 60

\* int(CronTimeSetting) as python-crontab reads the slice value
IntervalValue(s) == CASE s = "5" -> 5 [] OTHER -> 0

VARIABLES
    store,      \* the pickle files: a function from the keys that exist to values
    dirs,       \* the session directories that exist under the working directory
    files,      \* the images in session directories: records [dir, name]
    cwdFiles,   \* image files in the working directory itself
    crontab,    \* the installed crontab of the invoking user: a sequence of jobs
    led,        \* level of pin 12: "ON" (HIGH) or "OFF" (LOW, or released)
    clock,      \* wall-clock time in seconds (local time, as strftime reads it)
    proc,       \* per process: pc, argv, exit status, camera, locals
    calib,      \* history: the settings frozen by the latest calibration pass
    initOK,     \* history: the latest Initialize has completed normally
    first,      \* history: the store as the first successful Initialize left it
    endSnap     \* history: the store when the latest End started

vars == <<store, dirs, files, cwdFiles, crontab, led, clock, proc,
          calib, initOK, first, endSnap>>

persistent == <<store, dirs, files, cwdFiles, crontab>>
history == <<calib, initOK, first, endSnap>>

(* ----------------------------- processes ------------------------------- *)

\* a PiCamera object: closed, or open with the attributes the program uses
ClosedCam ==
    [open |-> FALSE, iso |-> 0, shutter_speed |-> 0, exposure_mode |-> "auto",
     awb_mode |-> "auto", awb_gains |-> <<0, 0>>, analog_gain |-> 0,
     digital_gain |-> 0]

NoDest == [dir |-> "", name |-> NoName]

IdleProc ==
    [pc |-> "idle", argv |-> <<>>, status |-> "none", cam |-> ClosedCam,
     CronTimeSetting |-> "", filename |-> NoName, destination |-> NoDest,
     path |-> "", sync |-> "none"]

Running(p) == proc[p].pc \notin {"idle", "exited"}

\* the branch of the __main__ block an argument vector selects
Dispatch(argv) ==
    IF Len(argv) + 1 = 3
    THEN IF argv[1] = "Initialize" THEN "i_led_on"
         ELSE IF argv[1] = "TimeCourse" THEN "t_cron"
         ELSE "cleanup"
    ELSE IF Len(argv) + 1 = 2
    THEN IF argv[1] = "End" THEN "e_remove" ELSE "cleanup"
    ELSE "c_led_on"

\* the program counters from which a camera.capture() is still ahead
PreCapturePcs ==
    {"i_led_on", "i_mkdir", "i_dump_path", "i_cam_open", "i_poll",
     "i_capture", "t_cron", "c_led_on", "c_cam_open", "c_load_iso",
     "c_load_shutter", "c_poll", "c_load_awb", "c_name",
     "c_load_path", "c_dest", "c_capture"}

\* exposures still to come: each takes at least one second of the clock
Pending == Cardinality({p \in Procs : proc[p].pc \in PreCapturePcs})

\* the persisted Session State: SessionConfig and CalibrationProfile
SessionKeys == {"path", "iso", "shutter_speed", "awb_gain"}
SessionState(s) == [k \in SessionKeys \cap DOMAIN s |-> s[k]]
Ready(s) == SessionKeys \subseteq DOMAIN s

NoSnap == [set |-> FALSE, store |-> <<>>]
Snap(s) == [set |-> TRUE, store |-> SessionState(s)]

Goto(p, pc) == proc' = [proc EXCEPT ![p].pc = pc]

\* the process ends: its objects are gone; its exit status is kept, and how
\* its drive push ended
Exit(p, status) ==
    proc' = [proc EXCEPT ![p] =
                [IdleProc EXCEPT !.pc = "exited", !.argv = proc[p].argv,
                                 !.status = status, !.sync = proc[p].sync]]

\* an uncaught exception: the with-block closes the camera and the process
\* ends where it is; nothing of lines 161-196 runs after it
Raise(p, err) ==
    /\ Exit(p, err)
    /\ UNCHANGED <<persistent, led, clock, history>>

\* a job of the same user's crontab that runs another program
OtherJob ==
    [command |-> "backup.sh", minute |-> <<[kind |-> "on", val |-> 0]>>,
     enabled |-> TRUE]

\* how many installed jobs run this program
OurJobsInstalled ==
    Cardinality({i \in 1..Len(crontab) : crontab[i].command = "SynBioAutomation.py"})

InitGPIO == "OFF"
\* LedOnLevel with a slip: LED_ON drives the pin LOW
LedOnLevelLow == "OFF"
LedOnLevel == "ON"
LedOffLevel == "OFF"
CleanupLevel == "OFF"

\* a process starts with argument vector argv: init_GPIO and the dispatch
Launch(p, argv) ==
    /\ ~Running(p)
    /\ Dispatch(argv) = "t_cron" => OurJobsInstalled < MaxCron
    /\ Dispatch(argv) \in PreCapturePcs => clock + Pending < MaxClock
    /\ proc' = [proc EXCEPT ![p] =
                  [IdleProc EXCEPT !.pc = Dispatch(argv), !.argv = argv]]
    /\ led' = InitGPIO
    /\ initOK' = IF Dispatch(argv) = "i_led_on" THEN FALSE ELSE initOK
    /\ endSnap' = IF Dispatch(argv) = "e_remove" THEN Snap(store)
                  ELSE IF argv = <<>> THEN endSnap
                  ELSE NoSnap
    /\ UNCHANGED <<persistent, clock, calib, first>>

\* a command line is entered while no other invocation is running
Invoke(p, argv) ==
    /\ \A q \in Procs \ {p} : ~Running(q)
    /\ Launch(p, argv)

\* the camera can be opened by one process at a time
CameraFree == \A q \in Procs : ~proc[q].cam.open

(* ----------------------------- Initialize ------------------------------ *)

I_LedOn(p) ==
    /\ proc[p].pc = "i_led_on"
    /\ led' = LedOnLevel
    /\ Goto(p, "i_mkdir")
    /\ UNCHANGED <<persistent, clock, history>>

I_Mkdir(p) ==
    /\ proc[p].pc = "i_mkdir"
    /\ LET name == proc[p].argv[2] IN
       \/ /\ dirs' = dirs \cup {name}
          /\ Goto(p, "i_dump_path")
          /\ UNCHANGED <<store, files, cwdFiles, crontab, led, clock, history>>
       \/ /\ name \notin dirs
          /\ Raise(p, "OSError")

DumpPath(p) == ("path" :> proc[p].argv[2]) @@ store

I_DumpPath(p) ==
    /\ proc[p].pc = "i_dump_path"
    /\ store' = DumpPath(p)
    /\ Goto(p, "i_cam_open")
    /\ UNCHANGED <<dirs, files, cwdFiles, crontab, led, clock, history>>

\* PiCamera() with lines 89-92 applied; the sensor's gains are its own
InitCams ==
    {[open |-> TRUE, iso |-> 100, shutter_speed |-> 1000000,
      exposure_mode |-> "auto", awb_mode |-> "auto", awb_gains |-> w,
      analog_gain |-> a, digital_gain |-> d] :
        w \in AwbAuto, a \in Gains, d \in Gains}

I_CamOpen(p) ==
    /\ proc[p].pc = "i_cam_open"
    /\ \/ /\ CameraFree
          /\ \E c \in InitCams :
               proc' = [proc EXCEPT ![p].cam = c, ![p].pc = "i_poll"]
          /\ UNCHANGED <<persistent, led, clock, history>>
       \/ Raise(p, "DeviceError")

\* Settled with a slip: the loop test joins the two gains with 'and'
SettledEither(c) == ~(c.analog_gain # 1 /\ c.digital_gain # 1)
Settled(c) == ~(c.analog_gain # 1 \/ c.digital_gain # 1)

\* the automatic exposure moves the gains for as long as it is not off
GainDrift(p) ==
    /\ proc[p].cam.open
    /\ proc[p].cam.exposure_mode # "off"
    /\ \E a \in Gains, d \in Gains :
          /\ <<a, d>> # <<proc[p].cam.analog_gain, proc[p].cam.digital_gain>>
          /\ proc' = [proc EXCEPT ![p].cam.analog_gain = a,
                                  ![p].cam.digital_gain = d]
    /\ UNCHANGED <<persistent, led, clock, history>>

Profile(c) ==
    [iso |-> c.iso, shutter_speed |-> c.shutter_speed, awb_gains |-> c.awb_gains]

FreezeInit(c) ==
    [c EXCEPT !.exposure_mode = "off", !.awb_mode = "off",
              !.awb_gains = <<15, 15>>]

\* one test of the loop of lines 95-96: not settled, sleep and test again;
\* settled, the loop ends and lines 97-101 freeze the gains it has just seen
I_Poll(p) ==
    /\ proc[p].pc = "i_poll"
    /\ \/ /\ Settled(proc[p].cam)
          /\ proc' = [proc EXCEPT ![p].cam = FreezeInit(proc[p].cam),
                                  ![p].pc = "i_capture"]
          /\ calib' = Profile(FreezeInit(proc[p].cam))
       \/ /\ ~Settled(proc[p].cam)
          /\ UNCHANGED <<proc, calib>>
    /\ UNCHANGED <<persistent, led, clock, initOK, first, endSnap>>

I_Capture(p) ==
    /\ proc[p].pc = "i_capture"
    /\ \/ /\ cwdFiles' = cwdFiles \cup {InitialPng}
          /\ clock' = clock + 1
          /\ Goto(p, "i_load_path")
          /\ UNCHANGED <<store, dirs, files, crontab, led, history>>
       \/ Raise(p, "DeviceError")

I_LoadPath(p) ==
    /\ proc[p].pc = "i_load_path"
    /\ IF "path" \in DOMAIN store
       THEN /\ proc' = [proc EXCEPT ![p].path = store["path"],
                                    ![p].pc = "i_move"]
            /\ UNCHANGED <<persistent, led, clock, history>>
       ELSE Raise(p, "IOError")

\* shutil.move(src, dst) into a session directory: an existing dst is replaced
Move(src, dst) == files \cup {dst}

I_Move(p) ==
    /\ proc[p].pc = "i_move"
    /\ LET dst == [dir |-> proc[p].path, name |-> InitialPng] IN
       IF InitialPng \in cwdFiles /\ proc[p].path \in dirs
       THEN /\ cwdFiles' = cwdFiles \ {InitialPng}
            /\ files' = Move(InitialPng, dst)
            /\ Goto(p, "i_sync")
            /\ UNCHANGED <<store, dirs, crontab, led, clock, history>>
       ELSE Raise(p, "IOError")

\* how the drive push command can end: exit code zero or not
SyncOutcomes == {"ok", "failed"}

\* I_Sync with a slip: a failed push raises (as subprocess.check_call would)
I_SyncChecked(p) ==
    /\ proc[p].pc = "i_sync"
    /\ \/ /\ proc' = [proc EXCEPT ![p].sync = "ok", ![p].pc = "i_dump_iso"]
          /\ UNCHANGED <<persistent, led, clock, history>>
       \/ /\ proc' = [proc EXCEPT ![p] =
                        [IdleProc EXCEPT !.pc = "exited",
                                         !.argv = proc[p].argv,
                                         !.status = "SyncError",
                                         !.sync = "failed"]]
          /\ UNCHANGED <<persistent, led, clock, history>>

\* os.system('... drive push ...'): its exit code is not looked at
I_Sync(p) ==
    /\ proc[p].pc = "i_sync"
    /\ \E rc \in SyncOutcomes :
          proc' = [proc EXCEPT ![p].sync = rc, ![p].pc = "i_dump_iso"]
    /\ UNCHANGED <<persistent, led, clock, history>>

Dump(key, value) == (key :> value) @@ store

I_DumpIso(p) ==
    /\ proc[p].pc = "i_dump_iso"
    /\ store' = Dump("iso", proc[p].cam.iso)
    /\ Goto(p, "i_dump_shutter")
    /\ UNCHANGED <<dirs, files, cwdFiles, crontab, led, clock, history>>

\* I_DumpShutter with a slip: the dump of line 109 takes camera.iso
I_DumpShutterOfIso(p) ==
    /\ proc[p].pc = "i_dump_shutter"
    /\ store' = Dump("shutter_speed", proc[p].cam.iso)
    /\ Goto(p, "i_dump_awb")
    /\ UNCHANGED <<dirs, files, cwdFiles, crontab, led, clock, history>>

I_DumpShutter(p) ==
    /\ proc[p].pc = "i_dump_shutter"
    /\ store' = Dump("shutter_speed", proc[p].cam.shutter_speed)
    /\ Goto(p, "i_dump_awb")
    /\ UNCHANGED <<dirs, files, cwdFiles, crontab, led, clock, history>>

I_DumpAwb(p) ==
    /\ proc[p].pc = "i_dump_awb"
    /\ store' = Dump("awb_gain", proc[p].cam.awb_gains)
    /\ Goto(p, "i_dump_again")
    /\ UNCHANGED <<dirs, files, cwdFiles, crontab, led, clock, history>>

I_DumpAnalog(p) ==
    /\ proc[p].pc = "i_dump_again"
    /\ store' = Dump("analog_gain", proc[p].cam.analog_gain)
    /\ Goto(p, "i_dump_dgain")
    /\ UNCHANGED <<dirs, files, cwdFiles, crontab, led, clock, history>>

I_DumpDigital(p) ==
    /\ proc[p].pc = "i_dump_dgain"
    /\ store' = Dump("digital_gain", proc[p].cam.digital_gain)
    /\ Goto(p, "i_cam_close")
    /\ UNCHANGED <<dirs, files, cwdFiles, crontab, led, clock, history>>

I_CamClose(p) ==
    /\ proc[p].pc = "i_cam_close"
    /\ proc' = [proc EXCEPT ![p].cam = ClosedCam, ![p].pc = "i_led_off"]
    /\ UNCHANGED <<persistent, led, clock, history>>

I_LedOff(p) ==
    /\ proc[p].pc = "i_led_off"
    /\ led' = LedOffLevel
    /\ Goto(p, "cleanup")
    /\ UNCHANGED <<persistent, clock, history>>

(* ------------------------- the crontab library ------------------------- *)

\* CronTab(): the crontab of the invoking user as it is installed now
CronTabRead == crontab

ThisProgram == "SynBioAutomation.py"

\* cron.new(command=...): a job with every field '*', appended to the table
JobNew(command) ==
    [command |-> command, minute |-> <<[kind |-> "star", val |-> 0]>>,
     enabled |-> TRUE]

\* job.minute.on(m): the slice becomes the single value m
MinuteOn(job, m) == [job EXCEPT !.minute = <<[kind |-> "on", val |-> m]>>]

\* job.minute.every(n): the slice is cleared and becomes '*/n'
MinuteEvery(job, n) == [job EXCEPT !.minute = <<[kind |-> "every", val |-> n]>>]

JobEnable(job) == [job EXCEPT !.enabled = TRUE]

\* cron.remove_all(): the table object holds no job afterwards
RemoveAll(tab) == <<>>

OurJobs(tab) == {i \in 1..Len(tab) : tab[i].command = ThisProgram}

(* ------------------------ TimeCourse and Capture ----------------------- *)

\* begin_CRON(): the table that cron.write() installs
BeginCron(CronTimeSetting) ==
    LET minute_time == MinuteOf(clock)
        cron == CronTabRead
        job == JobEnable(MinuteEvery(MinuteOn(JobNew(ThisProgram), minute_time),
                                     IntervalValue(CronTimeSetting)))
    IN  Append(cron, job)

T_Cron(p) ==
    /\ proc[p].pc = "t_cron"
    /\ crontab' = BeginCron(proc[p].argv[2])
    /\ proc' = [proc EXCEPT ![p].CronTimeSetting = proc[p].argv[2],
                            ![p].pc = "c_led_on"]
    /\ UNCHANGED <<store, dirs, files, cwdFiles, led, clock, history>>

\* C_LedOn with a slip: the capture branch registers the job again
C_LedOnAfterBeginCron(p) ==
    /\ proc[p].pc = "c_led_on"
    /\ led' = LedOnLevel
    /\ OurJobsInstalled < MaxCron
    /\ crontab' = BeginCron(proc[p].CronTimeSetting)
    /\ Goto(p, "c_cam_open")
    /\ UNCHANGED <<store, dirs, files, cwdFiles, clock, history>>

C_LedOn(p) ==
    /\ proc[p].pc = "c_led_on"
    /\ led' = LedOnLevel
    /\ Goto(p, "c_cam_open")
    /\ UNCHANGED <<persistent, clock, history>>

\* PiCamera() with lines 130-131 applied: iso and shutter speed automatic (0)
CaptureCams ==
    {[open |-> TRUE, iso |-> 0, shutter_speed |-> 0,
      exposure_mode |-> "auto", awb_mode |-> "auto", awb_gains |-> w,
      analog_gain |-> a, digital_gain |-> d] :
        w \in AwbAuto, a \in Gains, d \in Gains}

C_CamOpen(p) ==
    /\ proc[p].pc = "c_cam_open"
    /\ \/ /\ CameraFree
          /\ \E c \in CaptureCams :
               proc' = [proc EXCEPT ![p].cam = c, ![p].pc = "c_load_iso"]
          /\ UNCHANGED <<persistent, led, clock, history>>
       \/ Raise(p, "DeviceError")

C_LoadIso(p) ==
    /\ proc[p].pc = "c_load_iso"
    /\ IF "iso" \in DOMAIN store
       THEN /\ proc' = [proc EXCEPT ![p].cam.iso = store["iso"],
                                    ![p].pc = "c_load_shutter"]
            /\ UNCHANGED <<persistent, led, clock, history>>
       ELSE Raise(p, "IOError")

C_LoadShutter(p) ==
    /\ proc[p].pc = "c_load_shutter"
    /\ IF "shutter_speed" \in DOMAIN store
       THEN /\ proc' = [proc EXCEPT
                          ![p].cam.shutter_speed = store["shutter_speed"],
                          ![p].pc = "c_poll"]
            /\ UNCHANGED <<persistent, led, clock, history>>
       ELSE Raise(p, "IOError")

\* one test of the loop of lines 136-137, with line 138 when it ends
C_Poll(p) ==
    /\ proc[p].pc = "c_poll"
    /\ \/ /\ Settled(proc[p].cam)
          /\ proc' = [proc EXCEPT ![p].cam.exposure_mode = "off",
                                  ![p].pc = "c_load_awb"]
       \/ /\ ~Settled(proc[p].cam)
          /\ UNCHANGED proc
    /\ UNCHANGED <<persistent, led, clock, history>>

C_LoadAwb(p) ==
    /\ proc[p].pc = "c_load_awb"
    /\ IF "awb_gain" \in DOMAIN store
       THEN /\ proc' = [proc EXCEPT ![p].cam.awb_mode = "off",
                                    ![p].cam.awb_gains = store["awb_gain"],
                                    ![p].pc = "c_name"]
            /\ UNCHANGED <<persistent, led, clock, history>>
       ELSE Raise(p, "IOError")

C_Name(p) ==
    /\ proc[p].pc = "c_name"
    /\ proc' = [proc EXCEPT ![p].filename = StampPng(clock),
                            ![p].pc = "c_load_path"]
    /\ UNCHANGED <<persistent, led, clock, history>>

C_LoadPath(p) ==
    /\ proc[p].pc = "c_load_path"
    /\ IF "path" \in DOMAIN store
       THEN /\ proc' = [proc EXCEPT ![p].path = store["path"],
                                    ![p].pc = "c_dest"]
            /\ UNCHANGED <<persistent, led, clock, history>>
       ELSE Raise(p, "IOError")

C_Dest(p) ==
    /\ proc[p].pc = "c_dest"
    /\ proc' = [proc EXCEPT
                  ![p].destination = [dir |-> proc[p].path,
                                      name |-> StampPng(clock)],
                  ![p].pc = "c_capture"]
    /\ UNCHANGED <<persistent, led, clock, history>>

C_Capture(p) ==
    /\ proc[p].pc = "c_capture"
    /\ \/ /\ cwdFiles' = cwdFiles \cup {proc[p].filename}
          /\ clock' = clock + 1
          /\ Goto(p, "c_move")
          /\ UNCHANGED <<store, dirs, files, crontab, led, history>>
       \/ Raise(p, "DeviceError")

C_Move(p) ==
    /\ proc[p].pc = "c_move"
    /\ IF proc[p].filename \in cwdFiles /\ proc[p].destination.dir \in dirs
       THEN /\ cwdFiles' = cwdFiles \ {proc[p].filename}
            /\ files' = Move(proc[p].filename, proc[p].destination)
            /\ Goto(p, "c_sync")
            /\ UNCHANGED <<store, dirs, crontab, led, clock, history>>
       ELSE Raise(p, "IOError")

C_Sync(p) ==
    /\ proc[p].pc = "c_sync"
    /\ \E rc \in SyncOutcomes :
          proc' = [proc EXCEPT ![p].sync = rc, ![p].pc = "c_cam_close"]
    /\ UNCHANGED <<persistent, led, clock, history>>

C_CamClose(p) ==
    /\ proc[p].pc = "c_cam_close"
    /\ proc' = [proc EXCEPT ![p].cam = ClosedCam, ![p].pc = "c_led_off"]
    /\ UNCHANGED <<persistent, led, clock, history>>

C_LedOff(p) ==
    /\ proc[p].pc = "c_led_off"
    /\ led' = LedOffLevel
    /\ Goto(p, "cleanup")
    /\ UNCHANGED <<persistent, clock, history>>

(* --------------------------------- End --------------------------------- *)

\* CronTab().remove_all(): a table object is read, emptied and dropped
E_Remove(p) ==
    /\ proc[p].pc = "e_remove"
    /\ RemoveAll(CronTabRead) = <<>>
    /\ Goto(p, "e_write")
    /\ UNCHANGED <<persistent, led, clock, history>>

\* EndWrite with a slip: the table is emptied and written through one object
EndWriteEmptied == RemoveAll(CronTabRead)

\* CronTab().write(): a second table object is read and installed as read
EndWrite == CronTabRead

\* E_Write with a slip: ending the time course also deletes the pickle files
E_WriteAndForget(p) ==
    /\ proc[p].pc = "e_write"
    /\ crontab' = EndWrite
    /\ store' = <<>>
    /\ Goto(p, "cleanup")
    /\ UNCHANGED <<dirs, files, cwdFiles, led, clock, history>>

E_Write(p) ==
    /\ proc[p].pc = "e_write"
    /\ crontab' = EndWrite
    /\ Goto(p, "cleanup")
    /\ UNCHANGED <<store, dirs, files, cwdFiles, led, clock, history>>

\* GPIO.cleanup() and the normal end of the process
Cleanup(p) ==
    /\ proc[p].pc = "cleanup"
    /\ led' = CleanupLevel
    /\ Exit(p, "ok")
    /\ initOK' = (initOK \/ Dispatch(proc[p].argv) = "i_led_on")
    /\ first' = IF Dispatch(proc[p].argv) = "i_led_on" /\ ~first.set
                THEN Snap(store) ELSE first
    /\ UNCHANGED <<persistent, clock, calib, endSnap>>

(* ------------------------------- clock --------------------------------- *)

Tick ==
    /\ clock + Pending < MaxClock
    /\ clock' = clock + 1
    /\ UNCHANGED <<persistent, led, proc, history>>

\* the local time is set back between two invocations (a time correction,
\* the end of summer time)
ClockSetBack ==
    /\ clock > ClockStart
    /\ \A p \in Procs : ~Running(p)
    /\ clock' = clock - 1
    /\ UNCHANGED <<persistent, led, proc, history>>

(* ---------------------------- specification ---------------------------- *)

Init ==
    /\ store = <<>>
    /\ dirs = {}
    /\ files = {}
    /\ cwdFiles = {}
    /\ crontab = <<OtherJob>>
    /\ led = "OFF"
    /\ clock = ClockStart
    /\ proc = [p \in Procs |-> IdleProc]
    /\ calib = Profile(ClosedCam)
    /\ initOK = FALSE
    /\ first = NoSnap
    /\ endSnap = NoSnap

\* the statements of a running invocation, and its sensor
\* the statements of the program
Program(p) ==
    \/ I_LedOn(p) \/ I_Mkdir(p) \/ I_DumpPath(p) \/ I_CamOpen(p) \/ I_Poll(p)
    \/ I_Capture(p) \/ I_LoadPath(p) \/ I_Move(p) \/ I_Sync(p)
    \/ I_DumpIso(p) \/ I_DumpShutter(p) \/ I_DumpAwb(p) \/ I_DumpAnalog(p)
    \/ I_DumpDigital(p) \/ I_CamClose(p) \/ I_LedOff(p)
    \/ T_Cron(p) \/ C_LedOn(p) \/ C_CamOpen(p) \/ C_LoadIso(p)
    \/ C_LoadShutter(p) \/ C_Poll(p) \/ C_LoadAwb(p)
    \/ C_Name(p) \/ C_LoadPath(p) \/ C_Dest(p) \/ C_Capture(p) \/ C_Move(p)
    \/ C_Sync(p) \/ C_CamClose(p) \/ C_LedOff(p)
    \/ E_Remove(p) \/ E_Write(p)
    \/ Cleanup(p)

\* what goes on while process p lives: its statements and its camera's gains
Run(p) ==
    \/ Program(p)
    \/ GainDrift(p)

Step(p) ==
    \/ \E argv \in Argvs : Invoke(p, argv)
    \/ Run(p)

Next ==
    \/ \E p \in SeqProcs : Step(p)
    \/ Tick
    \/ ClockSetBack

Spec == Init /\ [][Next]_vars

\* the automatic exposure brings both gains to the reference value
Converge(p) == GainDrift(p) /\ Settled(proc'[p].cam)

\* a started process keeps executing its statements; the gains converge
\* while the exposure is automatic, and some test of the poll loop sees them
\* at the reference value
Fairness ==
    \A p \in SeqProcs :
       /\ WF_vars(Program(p))
       /\ WF_vars(Converge(p))
       /\ SF_vars(I_Poll(p))
       /\ SF_vars(C_Poll(p))

SpecLive == Spec /\ Fairness

(* ------------------- invocations that may overlap ---------------------- *)

\* the command lines entered by hand in the specification with overlap
ConcArgvs == {<<>>, <<"End">>, <<"Initialize", "A">>, <<"TimeCourse", "5">>}

\* nothing in lines 161-196 looks for another running instance
InvokeAnyTime(p, argv) == Launch(p, argv)

\* cron runs an enabled job of the program: the script without arguments
CronFire(p) ==
    /\ \E i \in OurJobs(crontab) : crontab[i].enabled
    /\ Launch(p, <<>>)

NextConc ==
    \/ \E p \in Procs :
          \/ \E argv \in ConcArgvs : InvokeAnyTime(p, argv)
          \/ CronFire(p)
          \/ Run(p)
    \/ Tick
    \/ ClockSetBack

SpecConc == Init /\ [][NextConc]_vars

(* ------------------------------- claims -------------------------------- *)

Exited(p) == proc[p].pc = "exited"
ExitedOk(p) == Exited(p) /\ proc[p].status = "ok"
OurJobCount == Cardinality(OurJobs(crontab))

\* the CalibrationProfile the store holds
StoredProfile(s) ==
    [iso |-> s["iso"], shutter_speed |-> s["shutter_speed"],
     awb_gains |-> s["awb_gain"]]

\* C1: whenever an invocation has ended, normally or by an error of the
\* capture device, the LED on pin 12 is OFF.
C1_LedOffOnEveryExit ==
    \A p \in Procs : Exited(p) => led = "OFF"

\* C2: in a no-argument invocation made while no Initialize has ever
\* succeeded, no step writes to the filesystem or the crontab, the LED is
\* never ON, and the invocation does not end normally.
C2_UninitializedCaptureHasNoEffect ==
    [][\A p \in Procs :
          (~first.set /\ proc'[p] # proc[p] /\ proc'[p].argv = <<>>
             /\ proc'[p].pc # "idle")
          => /\ persistent' = persistent
             /\ led' = "OFF"
             /\ proc'[p].pc = "exited" => proc'[p].status # "ok"]_vars

\* C3: when a TimeCourse invocation has completed, exactly one crontab entry
\* runs this program.
C3_OneEntryAfterTimeCourse ==
    \A p \in Procs :
        (ExitedOk(p) /\ Dispatch(proc[p].argv) = "t_cron") => OurJobCount = 1

\* C4: from the completion of an Initialize on, through any later Capture,
\* TimeCourse or End, the store holds iso, shutter speed and white-balance
\* gains equal to those frozen by the calibration pass of that Initialize.
C4_ProfileIsTheCalibratedOne ==
    initOK => (Ready(store) /\ StoredProfile(store) = calib)

C4_Witness ==
    /\ initOK
    /\ \E p \in Procs : ExitedOk(p) /\ proc[p].argv = <<>>
    /\ \E f \in files : f.name.kind = "stamp"

\* C5: the move that ends a capture never lands on a file that is already in
\* the session directory.
C5_NoCaptureOverwrites ==
    [][\A p \in Procs :
          (proc[p].pc = "c_move" /\ proc'[p].pc = "c_sync")
          => proc[p].destination \notin files]_vars

\* C6: whenever no invocation is running, the persisted profile and output
\* directory path are those the first successful Initialize left.
C6_SessionStateWrittenOnce ==
    (first.set /\ \A p \in Procs : ~Running(p))
    => SessionState(store) = first.store

\* C7: whenever the crontab holds an entry for this program, the profile and
\* the output directory path are persisted.
C7_ScheduledImpliesReady ==
    OurJobCount > 0 => Ready(store)

\* C8: when an End invocation has ended, no crontab entry runs this program.
C8_NoEntryAfterEnd ==
    \A p \in Procs :
        (Exited(p) /\ Dispatch(proc[p].argv) = "e_remove") => OurJobCount = 0

\* C9: End leaves the persisted profile and path as they were, and a plain
\* Capture() after an End that started with both persisted never fails on a
\* missing file and captures with that profile into that directory.
C9_CaptureAfterEndUsesSameSession ==
    /\ endSnap.set => SessionState(store) = endSnap.store
    /\ \A p \in Procs :
          (endSnap.set /\ Ready(endSnap.store) /\ proc[p].argv = <<>>
             /\ proc[p].pc # "idle")
          => /\ proc[p].status \notin {"IOError", "OSError"}
             /\ proc[p].pc \in {"c_move", "c_sync"}
                  => /\ Profile(proc[p].cam) = StoredProfile(endSnap.store)
                     /\ proc[p].destination.dir = endSnap.store["path"]

C9_Witness ==
    /\ endSnap.set
    /\ Ready(endSnap.store)
    /\ \E p \in Procs : ExitedOk(p) /\ proc[p].argv = <<>>

\* C10: no step of a no-argument invocation changes the crontab.
C10_CaptureLeavesCrontab ==
    [][\A p \in Procs :
          (proc'[p] # proc[p] /\ proc'[p].argv = <<>> /\ proc'[p].pc # "idle")
          => crontab' = crontab]_vars

C10_Witness ==
    /\ OurJobCount > 0
    /\ \E p \in Procs : ExitedOk(p) /\ proc[p].argv = <<>>
    /\ ~endSnap.set

\* C11: once the drive push of an invocation has failed, the image is in the
\* session directory, the invocation raises nothing, and when it has ended
\* it has ended normally with the LED OFF and the profile and path persisted
\* (after an Initialize: the profile of its calibration pass).
C11_SyncFailureIsNotFatal ==
    \A p \in Procs :
       proc[p].sync = "failed"
       => /\ proc[p].status \in {"none", "ok"}
          /\ Dispatch(proc[p].argv) = "i_led_on"
               => [dir |-> proc[p].argv[2], name |-> InitialPng] \in files
          /\ (Running(p) /\ Dispatch(proc[p].argv) # "i_led_on")
               => proc[p].destination \in files
          /\ Exited(p)
               => /\ proc[p].status = "ok"
                  /\ led = "OFF"
                  /\ Ready(store)
                  /\ Dispatch(proc[p].argv) = "i_led_on"
                       => StoredProfile(store) = calib

C11_Witness ==
    \E p \in Procs :
       /\ Exited(p) /\ proc[p].sync = "failed"
       /\ Dispatch(proc[p].argv) = "i_led_on"

\* the statements between LED_ON() and LED_OFF()
LitPcs ==
    {"i_mkdir", "i_dump_path", "i_cam_open", "i_poll", "i_capture",
     "i_load_path", "i_move", "i_sync", "i_dump_iso", "i_dump_shutter",
     "i_dump_awb", "i_dump_again", "i_dump_dgain", "i_cam_close", "i_led_off",
     "c_cam_open", "c_load_iso", "c_load_shutter", "c_poll", "c_load_awb",
     "c_name", "c_load_path", "c_dest", "c_capture", "c_move", "c_sync",
     "c_cam_close", "c_led_off"}

\* C12: while the crontab holds an entry for the program, never are two
\* invocations between their LED_ON() and their LED_OFF() at the same time.
C12_OneCaptureAtATime ==
    OurJobCount > 0 => Cardinality({p \in Procs : proc[p].pc \in LitPcs}) <= 1

\* C13: every crontab entry of the program carries, in its minute field,
\* the interval given to TimeCourse and a minute of the hour as anchor.
C13_EntryKeepsAnchorAndInterval ==
    \A i \in OurJobs(crontab) :
       LET minute == crontab[i].minute IN
       /\ \E k \in 1..Len(minute) :
             /\ minute[k].kind = "every"
             /\ minute[k].val \in {IntervalValue(a) : a \in Intervals}
       /\ \E k \in 1..Len(minute) :
             /\ minute[k].kind = "on"
             /\ minute[k].val \in {MinuteOf(t) : t \in ClockStart..MaxClock}

\* C14: in an invocation that runs alone, the LED is ON in every state in
\* which its camera is open (polling the gains, frozen, or capturing).
C14_LedOnWhileCameraOpen ==
    \A p \in Procs : proc[p].cam.open => led = "ON"

C14_Witness ==
    \E p \in Procs :
       /\ proc[p].cam.open
       /\ proc[p].pc = "c_capture"
       /\ Dispatch(proc[p].argv) = "t_cron"
       /\ led = "ON"

\* C15: the LED is OFF whenever an invocation is about to run the drive
\* push, and whenever Initialize is about to create the directory or to
\* write a pickle file.
C15_LedOffBeforeSyncAndPersist ==
    \A p \in Procs :
       proc[p].pc \in {"i_sync", "c_sync", "i_mkdir", "i_dump_path",
                       "i_dump_iso", "i_dump_shutter", "i_dump_awb",
                       "i_dump_again", "i_dump_dgain"}
       => led = "OFF"

\* C16: after an Initialize invocation has ended by an error, the store does
\* not hold a SessionConfig (path) without a complete CalibrationProfile:
\* it is either without a path or ready for a capture.
C16_FailedInitializeLeavesNoHalfStore ==
    \A p \in Procs :
       (/\ Exited(p)
        /\ Dispatch(proc[p].argv) = "i_led_on"
        /\ proc[p].status # "ok")
       => ("path" \in DOMAIN store => Ready(store))

CalibrationKeys ==
    {"iso", "shutter_speed", "awb_gain", "analog_gain", "digital_gain"}

CalibrationDumpPcs ==
    {"i_dump_iso", "i_dump_shutter", "i_dump_awb", "i_dump_again",
     "i_dump_dgain"}

\* the step writes the pickle file of a calibration field
WritesCalibration(p) ==
    \/ proc[p].pc \in CalibrationDumpPcs /\ proc'[p].pc # proc[p].pc
    \/ \E k \in CalibrationKeys :
          /\ k \in DOMAIN store'
          /\ k \notin DOMAIN store \/ store'[k] # store[k]

Frozen(c) == c.exposure_mode = "off" /\ c.awb_mode = "off"

ExternalFailures == {"DeviceError", "OSError"}

\* C18: when the gains converge and the external calls return, every
\* invocation that has started eventually has ended with the LED OFF.
C18_EveryInvocationEndsWithLedOff ==
    \A p \in SeqProcs :
       Running(p) ~> (/\ Exited(p)
                      /\ led = "OFF" \/ proc[p].status \in ExternalFailures)

\* the four invocations of the module docstring
Documented(argv) ==
    \/ argv = <<>>
    \/ argv = <<"End">>
    \/ Len(argv) = 2 /\ argv[1] \in {"Initialize", "TimeCourse"}

\* C19: no step taken while an invocation with other arguments than the four
\* documented ones is running turns the LED on or changes the store, the
\* directories, the image files or the crontab.
C19_UndocumentedInvocationHasNoEffect ==
    [][\A p \in SeqProcs :
          (Running(p) /\ ~Documented(proc[p].argv))
          => (led' # "ON" /\ persistent' = persistent)]_vars

\* the jobs of a table that run other programs, in the table's order
OtherJobs(tab) == SelectSeq(tab, LAMBDA job : job.command # ThisProgram)

\* C20: no step of an End or of a TimeCourse invocation changes the jobs of
\* the crontab that run other programs.
C20_OtherEntriesUntouched ==
    [][\A p \in Procs :
          (Running(p) /\ Dispatch(proc[p].argv) \in {"e_remove", "t_cron"})
          => OtherJobs(crontab') = OtherJobs(crontab)]_vars

C20_Witness ==
    \E p \in Procs :
       /\ ExitedOk(p)
       /\ proc[p].argv = <<"End">>
       /\ OurJobCount > 0
       /\ OtherJobs(crontab) = <<OtherJob>>

====
